---- MODULE Spec2Model ----
(***************************************************************************)
(* A model of build_tools/http_cache.py: the on-disk cache (class Cache)   *)
(* and the validated, retrying downloader (download).                      *)
(*                                                                         *)
(* Sizes are counted in units of 10^9 bytes, so that the cache budget of   *)
(* 4 * 10^9 bytes is max_size == 4.  A file's content is a sequence of     *)
(* such units; its size is the length of the sequence.                     *)
(*                                                                         *)
(* A URL is its path, a sequence of characters ("/" and letters).  A file  *)
(* name is <stem>-<suffix>[_tmp]: stem is the mangled path, suffix the     *)
(* part after the last "-".                                                *)
(***************************************************************************)
EXTENDS Integers, Sequences, FiniteSets, TLC

VARIABLES
    files,      \* the cache root: file records, most recently modified first
    server,     \* per URL, the resource the origin server holds
    pc,         \* position of the download call
    url,        \* download's argument url
    retries,    \* download's argument retries
    attempt,    \* download's local attempt
    last_err,   \* download's local last_err
    hit,        \* download's local hit (result of c.get), <<>> is None
    hdr,        \* the If-None-Match header of the request, <<>> if none
    resp,       \* the response being processed, <<>> if none
    path,       \* download's local path (result of c.put), <<>> if unset
    n,          \* download's local n, bytes written so far
    after,      \* what follows the finally block
    ret,        \* the path returned to the caller, <<>> if none
    op,         \* the last direct Cache operation (get/put), <<>> if none
    hist,       \* history of the current and the finished calls
    prog,       \* the streaming loop on its own: its locals and the callbacks
    tasks       \* download calls that run concurrently: per call, its locals

vars == <<files, server, pc, url, retries, attempt, last_err, hit, hdr, resp,
          path, n, after, ret, op, hist, prog, tasks>>

callvars == <<pc, url, retries, attempt, last_err, hit, hdr, resp, path, n,
              after, ret>>

-----------------------------------------------------------------------------
(* Bounds of the model *)

MaxLen == 3         \* longest body a server delivers
MaxRetries == 2     \* largest value of download's argument retries
MaxFiles == 2       \* files in an arbitrary initial cache root
MaxSize == 4        \* largest Content-Length of the streaming loop on its own
MaxBody == 5        \* longest body of the streaming loop on its own
MaxCb == 3          \* largest value of download's argument cb_count
MaxBackoff == 7     \* largest value of retries where the delays are observed

(* Program constants *)

max_size == 4       \* Cache('~/.dcache', 10**9 * 4), in units of 10^9 bytes

Absent == -1        \* a missing Content-Length (expected_size is None)

MB == 2             \* 1024 * 1024, in the units of the streaming loop on its own

-----------------------------------------------------------------------------
(* Strings: entity tags, validators *)

EmptyStr == [kind |-> "empty", v |-> <<>>]
NulStr == [kind |-> "nul", v |-> <<>>]          \* the one-byte string "\x00"
Opaque(i) == [kind |-> "opaque", v |-> <<i>>]   \* an entity tag that is no checksum
Md5Hex(data) == [kind |-> "md5", v |-> data]    \* hashlib.md5(data).hexdigest()

(* Header values as they come over the wire: hex digits that are not 32 in *)
(* number, the base64 text of the bytes whose hex form is s, a text that   *)
(* b64decode rejects, and s between quotes, after an opening quote, after  *)
(* W/ and between blanks                                                    *)
ShortHex(i) == [kind |-> "hex", v |-> <<i>>]
Base64(s) == [kind |-> "b64", v |-> <<s>>]
NotBase64 == [kind |-> "notb64", v |-> <<>>]
Quoted(s) == [kind |-> "quoted", v |-> <<s>>]
LQuoted(s) == [kind |-> "lquoted", v |-> <<s>>]
Weak(s) == [kind |-> "weak", v |-> <<s>>]
Padded(s) == [kind |-> "padded", v |-> <<s>>]

Body(sym, len) == [i \in 1..len |-> sym]

(* The bodies a server delivers, one of each length *)

(* codecs.encode(s.encode(), 'hex') and codecs.decode(h, 'hex') *)
HexEncode(s) == [wellformed |-> TRUE, of |-> s]

BadHex == [wellformed |-> FALSE, of |-> EmptyStr]

HexDecode(h) == IF h.wellformed THEN <<h.of>> ELSE <<>>

IsPrefix(s, t) == Len(s) <= Len(t) /\ SubSeq(t, 1, Len(s)) = s

-----------------------------------------------------------------------------
(* URLs and file names *)

URL_A == <<"/", "a">>
URL_B == <<"/", "b">>

URLS == {URL_A, URL_B}

mangle(u) == <<"defold">> \o [i \in 1..Len(u) |-> IF u[i] = "/" THEN "-" ELSE u[i]]

_url_to_path(u) == mangle(u)

Name(stem, suffix, tmp) == [stem |-> stem, suffix |-> suffix, tmp |-> tmp]

NameOf(f) == Name(f.stem, f.suffix, f.tmp)

File(name, data) ==
    [stem |-> name.stem, suffix |-> name.suffix, tmp |-> name.tmp,
     data |-> data]

AddTmp(name) == Name(name.stem, name.suffix, TRUE)

(* glob.glob('%s-*' % path): the names that start with path followed by "-" *)
Matches(fs, p) ==
    {i \in 1..Len(fs) : IsPrefix(p \o <<"-">>, fs[i].stem \o <<"-">>)}

Exists(fs, name) == \E i \in 1..Len(fs) : NameOf(fs[i]) = name

RECURSIVE Remove(_, _)
Remove(fs, S) ==
    IF fs = <<>> THEN <<>>
    ELSE LET rest == Remove(Tail(fs), {i - 1 : i \in S \ {1}})
         IN IF 1 \in S THEN rest ELSE <<Head(fs)>> \o rest

RemoveName(fs, name) == Remove(fs, {i \in 1..Len(fs) : NameOf(fs[i]) = name})

(* os.utime(match, None): the file becomes the most recently modified *)
Touch(fs, i) == <<fs[i]>> \o Remove(fs, {i})

Size(f) == Len(f.data)

RECURSIVE TotalSize(_)
TotalSize(fs) == IF fs = <<>> THEN 0 ELSE Size(Head(fs)) + TotalSize(Tail(fs))

-----------------------------------------------------------------------------
(* class Cache *)

(* Cache.get without the test for a stale temporary file *)
GetAtNoTmpCheck(fs, i) ==
    [hit |-> <<[name |-> NameOf(fs[i]),
                key |-> IF fs[i].suffix.wellformed
                        THEN HexDecode(fs[i].suffix)[1] ELSE EmptyStr]>>,
     files |-> Touch(fs, i)]

(* Cache.get that never decodes the validator *)
GetAtNoKey(fs, i) ==
    IF fs[i].tmp
    THEN [hit |-> <<>>, files |-> Remove(fs, {i})]
    ELSE [hit |-> <<[name |-> NameOf(fs[i]), key |-> EmptyStr]>>,
          files |-> Touch(fs, i)]

(* Cache.get that reports the miss and leaves the stale temporary file *)
GetAtKeepTmp(fs, i) ==
    IF fs[i].tmp
    THEN [hit |-> <<>>, files |-> fs]
    ELSE [hit |-> <<[name |-> NameOf(fs[i]),
                     key |-> IF fs[i].suffix.wellformed
                             THEN HexDecode(fs[i].suffix)[1] ELSE EmptyStr]>>,
          files |-> Touch(fs, i)]

(* Cache.get with matches[0] = fs[i]: the pair of the result and the new *)
(* directory *)
(* Cache.get that returns the entry without updating its access time *)
GetAtNoTouch(fs, i) ==
    IF fs[i].tmp
    THEN [hit |-> <<>>, files |-> Remove(fs, {i})]
    ELSE [hit |-> <<[name |-> NameOf(fs[i]),
                     key |-> IF fs[i].suffix.wellformed
                             THEN HexDecode(fs[i].suffix)[1] ELSE EmptyStr]>>,
          files |-> fs]

(* Cache.get that treats a suffix which is not hex as a miss *)
GetAtMalformedMiss(fs, i) ==
    IF fs[i].tmp
    THEN [hit |-> <<>>, files |-> Remove(fs, {i})]
    ELSE IF fs[i].suffix.wellformed
    THEN [hit |-> <<[name |-> NameOf(fs[i]), key |-> HexDecode(fs[i].suffix)[1]]>>,
          files |-> Touch(fs, i)]
    ELSE [hit |-> <<>>, files |-> Touch(fs, i)]

GetAt(fs, i) ==
    IF fs[i].tmp
    THEN [hit |-> <<>>, files |-> Remove(fs, {i})]
    ELSE [hit |-> <<[name |-> NameOf(fs[i]),
                     key |-> IF fs[i].suffix.wellformed
                             THEN HexDecode(fs[i].suffix)[1] ELSE EmptyStr]>>,
          files |-> Touch(fs, i)]

(* Cache.get: glob lists the matches in an arbitrary order, so matches[0] *)
(* is any of them *)
Get(fs, u) ==
    LET m == Matches(fs, _url_to_path(u))
    IN IF m = {} THEN {[hit |-> <<>>, files |-> fs]}
       ELSE {GetAt(fs, i) : i \in m}

RECURSIVE AccLoop(_, _, _)
AccLoop(fs, total, size) ==
    IF fs = <<>> THEN <<>>
    ELSE LET t == total + Size(Head(fs))
         IN IF t + size > max_size
            THEN AccLoop(Tail(fs), t, size)
            ELSE <<Head(fs)>> \o AccLoop(Tail(fs), t, size)

RECURSIVE AccLoopNoIncoming(_, _, _)
AccLoopNoIncoming(fs, total, size) ==
    IF fs = <<>> THEN <<>>
    ELSE LET t == total + Size(Head(fs))
         IN IF t > max_size
            THEN AccLoopNoIncoming(Tail(fs), t, size)
            ELSE <<Head(fs)>> \o AccLoopNoIncoming(Tail(fs), t, size)

_accomodateNoIncoming(fs, size) == AccLoopNoIncoming(fs, 0, size)

(* A pass that adds up the sizes of the retained files only *)
RECURSIVE AccLoopRetainedOnly(_, _, _)
AccLoopRetainedOnly(fs, total, size) ==
    IF fs = <<>> THEN <<>>
    ELSE LET t == total + Size(Head(fs))
         IN IF t + size > max_size
            THEN AccLoopRetainedOnly(Tail(fs), total, size)
            ELSE <<Head(fs)>> \o AccLoopRetainedOnly(Tail(fs), t, size)

_accomodateRetainedOnly(fs, size) == AccLoopRetainedOnly(fs, 0, size)

(* Cache._accomodate: fs is already ordered by mtime, newest first *)
_accomodate(fs, size) == AccLoop(fs, 0, size)

(* Cache._accomodate when files fail: plan[i] says what happens to the i-th *)
(* listed file: "ok"; "lost", it disappears between the listing and the     *)
(* sort; "gone", it disappears between the sort and its turn in the loop;   *)
(* "stuck", os.remove fails on it.  The loop, lines 62-68: getsize of a     *)
(* file that is gone raises inside the try, and so does a failing remove.   *)
RECURSIVE AccLoopEnv(_, _, _, _, _)
AccLoopEnv(fs, i, total, size, plan) ==
    IF i > Len(fs) THEN <<>>
    ELSE IF plan[i] = "gone" THEN AccLoopEnv(fs, i + 1, total, size, plan)
    ELSE LET t == total + Size(fs[i])
         IN IF t + size > max_size /\ plan[i] # "stuck"
            THEN AccLoopEnv(fs, i + 1, t, size, plan)
            ELSE <<fs[i]>> \o AccLoopEnv(fs, i + 1, t, size, plan)

(* Lines 59-60: os.path.getmtime, the sort key, runs outside the try, so a  *)
(* lost file makes the sort raise and ends the pass before the loop         *)
_accomodateEnv(fs, size, plan) ==
    LET lost == {i \in 1..Len(fs) : plan[i] = "lost"}
    IN IF lost # {}
       THEN [raised |-> TRUE, files |-> Remove(fs, lost), examined |-> {}]
       ELSE [raised |-> FALSE, files |-> AccLoopEnv(fs, 1, 0, size, plan),
             examined |-> 1..Len(fs)]

(* Cache.put without the removal of the old entries of the key *)
PutKeepOld(fs, u, key, size) ==
    LET p == _url_to_path(u)
        key_enc == IF key = EmptyStr THEN HexEncode(NulStr) ELSE HexEncode(key)
    IN [path |-> Name(p, key_enc, FALSE), files |-> _accomodate(fs, size)]

(* Cache.put that makes room before it removes the old entries of the key *)
PutAccommodateFirst(fs, u, key, size) ==
    LET p == _url_to_path(u)
        key_enc == IF key = EmptyStr THEN HexEncode(NulStr) ELSE HexEncode(key)
        g == _accomodate(fs, size)
    IN [path |-> Name(p, key_enc, FALSE), files |-> Remove(g, Matches(g, p))]

(* Cache.put: the pair of the returned path and the new directory *)
Put(fs, u, key, size) ==
    LET p == _url_to_path(u)
        key_enc == IF key = EmptyStr THEN HexEncode(NulStr) ELSE HexEncode(key)
    IN [path |-> Name(p, key_enc, FALSE),
        files |-> _accomodate(Remove(fs, Matches(fs, p)), size)]

-----------------------------------------------------------------------------
(* Responses of urllib.request.urlopen *)

(* via "resp": urlopen returns a response object; via "httperror": it      *)
(* raises HTTPError(code); via "neterror": it raises URLError or a timeout. *)
(* body is <<b>> when the stream delivers exactly the body b, and <<>> when *)
(* the length of the stream is not decided in advance.                      *)
Response(via, code, clen, etag, cmd5, body) ==
    [via |-> via, code |-> code, clen |-> clen, etag |-> etag, cmd5 |-> cmd5,
     body |-> body]

NoBody(via, code) == Response(via, code, Absent, EmptyStr, <<>>, <<>>)

(* A checksum that is the checksum of no body a server delivers *)
WrongMd5 == Md5Hex(<<0>>)

(* The lengths a checksum in the headers may be the checksum of *)
RefLens(clen) == IF clen \in 0..MaxLen THEN {clen} ELSE {0, MaxLen}

(* The entity tag and the Content-MD5 header of a response that announces *)
(* the body b *)
TagHeaders(b) ==
    {<<EmptyStr, <<>>>>, <<Opaque(1), <<>>>>, <<Opaque(1), <<Base64(WrongMd5)>>>>,
     <<Md5Hex(b), <<>>>>, <<EmptyStr, <<Base64(Md5Hex(b))>>>>,
     <<Md5Hex(b), <<Base64(WrongMd5)>>>>}

(* Any server: every response the code can meet *)
AnyResponses ==
    {NoBody("neterror", 0), NoBody("httperror", 304), NoBody("httperror", 500),
     NoBody("resp", 304), NoBody("resp", 204)}
    \cup
    UNION {UNION {{Response("resp", 200, clen, t[1], t[2], <<>>) :
                      t \in TagHeaders(Body(1, l))} :
                  l \in RefLens(clen)} :
           clen \in {Absent, max_size + 1} \cup (0..MaxLen)}

(* The resources an origin server may hold: a body and its entity tag *)
Resource(body, etag) == [body |-> body, etag |-> etag]

Resources ==
    UNION {{Resource(b, e) : e \in {EmptyStr, Opaque(Len(b) + 1), Md5Hex(b)}} :
           b \in {Body(1, l) : l \in {0, MaxLen - 1, MaxLen}}}

(* A healthy server: 304 exactly when If-None-Match names the current entity *)
(* tag, else the full body with truthful headers                            *)
HonestResponses(res, h) ==
    IF h # <<>> /\ res.etag # EmptyStr /\ h[1] = res.etag
    THEN {NoBody("httperror", 304), NoBody("resp", 304)}
    ELSE {Response("resp", 200, clen, res.etag, cmd5, <<res.body>>) :
            clen \in {Absent, Len(res.body)},
            cmd5 \in {<<>>, <<Base64(Md5Hex(res.body))>>}}

(* base64.b64decode(c).hex(): the sequence is empty when b64decode raises *)
B64DecodeHex(c) == IF c.kind = "b64" THEN c.v ELSE <<>>

(* etag.strip() *)
StripBlanks(s) == IF s.kind = "padded" THEN s.v[1] ELSE s

(* s.strip('"'): of W/"t" only the closing quote is at an end of the string *)
StripQuotes(s) ==
    IF s.kind \in {"quoted", "lquoted"} THEN s.v[1]
    ELSE IF s.kind = "weak" /\ s.v[1].kind = "quoted"
    THEN Weak(LQuoted(s.v[1].v[1]))
    ELSE s

(* s.removeprefix('W/') *)
RemoveWeak(s) == IF s.kind = "weak" THEN s.v[1] ELSE s

(* all(c in '0123456789abcdefABCDEF' for c in etag) and len(etag) in (32,) *)
IsHex32(s) == s.kind = "md5"

(* A hint that is taken from the entity tag before the Content-MD5 header *)
PreferEtag(r) ==
    LET etag == StripQuotes(RemoveWeak(StripQuotes(StripBlanks(r.etag))))
        dec == IF r.cmd5 # <<>> /\ r.cmd5[1] # EmptyStr
               THEN B64DecodeHex(r.cmd5[1]) ELSE <<>>
    IN IF IsHex32(etag) THEN <<etag>>
       ELSE IF dec # <<>> /\ dec[1] # EmptyStr THEN dec
       ELSE <<>>

(* _extract_md5_from_headers: the sequence is empty when it returns None *)
_extract_md5_from_headers(r) ==
    LET content_md5 == r.cmd5
        dec == IF content_md5 # <<>> /\ content_md5[1] # EmptyStr
               THEN B64DecodeHex(content_md5[1]) ELSE <<>>
        md5_hex == IF dec # <<>> /\ dec[1] # EmptyStr THEN dec ELSE <<>>
        etag == StripQuotes(RemoveWeak(StripQuotes(StripBlanks(r.etag))))
    IN IF md5_hex # <<>> THEN md5_hex
       ELSE IF IsHex32(etag) THEN <<etag>>
       ELSE <<>>

-----------------------------------------------------------------------------
(* download *)

NoErr == [kind |-> "none", code |-> 0]
Err(kind, code) == [kind |-> kind, code |-> code]

(* os.path.exists(p) and os.path.getsize(p) > 0 *)
Usable(fs, name) ==
    \E i \in 1..Len(fs) : NameOf(fs[i]) = name /\ Size(fs[i]) > 0

FileAt(fs, name) ==
    fs[CHOOSE i \in 1..Len(fs) : NameOf(fs[i]) = name]

(* What the server did in the current call: every attempt so far got a 200 *)
(* whose body ended before the declared length (short), every attempt so   *)
(* far got a 200 of the right length whose checksum does not match         *)
(* (mismatch), some response was a 200 (xfer), the attempt during which the *)
(* cached file was deleted by somebody else (lostAt, 0 if none), the number *)
(* of requests issued (reqs), the number of attempts that recorded an error *)
(* (fails), the attempt that recorded last_err (errAt, 0 if none) and the    *)
(* sleeps of the call (naps: the attempt slept after and the seconds slept), *)
(* the attempt whose cleanup could not remove a file (stuckAt, 0 if none),   *)
(* whether a final entry of the URL existed when the call began (had)        *)
NewCur ==
    [short |-> TRUE, mismatch |-> TRUE, xfer |-> FALSE, lostAt |-> 0,
     reqs |-> 0, fails |-> 0, errAt |-> 0, naps |-> <<>>, stuckAt |-> 0,
     had |-> FALSE]

NoHist == [cur |-> NewCur, prev |-> <<>>, lost |-> {}, empty |-> TRUE]

(* The streaming loop is not running on its own *)
NoProg ==
    [size |-> Absent, cb_count |-> 0, left |-> 0, n |-> 0, cb_i |-> -1,
     calls |-> <<>>]

(* download is called: lines 129-131 *)
Start(u, r) ==
    /\ pc = "idle"
    /\ url' = u
    /\ retries' = r
    /\ attempt' = 0
    /\ last_err' = NoErr
    /\ pc' = "loop"
    /\ hist' = [hist EXCEPT
                   !.cur = [NewCur EXCEPT !.had =
                              \E i \in 1..Len(files) :
                                 ~files[i].tmp /\ files[i].stem = _url_to_path(u)],
                   !.empty = files = <<>>]
    /\ UNCHANGED <<files, server, hit, hdr, resp, path, n, after, ret, op>>
    /\ UNCHANGED <<prog, tasks>>

(* A loop head that never sends the validator *)
LookupNoHeader ==
    /\ pc = "loop"
    /\ attempt < retries
    /\ attempt' = attempt + 1
    /\ \E g \in Get(files, url) :
        /\ hit' = g.hit
        /\ files' = g.files
        /\ hdr' = <<>>
    /\ pc' = "request"
    /\ UNCHANGED <<server, url, retries, last_err, resp, path, n, after, ret,
                   op, hist>>
    /\ UNCHANGED <<prog, tasks>>

(* A loop head that lets one attempt too many through *)
LookupOffByOne ==
    /\ pc = "loop"
    /\ attempt <= retries
    /\ attempt' = attempt + 1
    /\ \E g \in Get(files, url) :
        /\ hit' = g.hit
        /\ files' = g.files
        /\ hdr' = IF g.hit # <<>> /\ g.hit[1].key # EmptyStr
                  THEN <<g.hit[1].key>> ELSE <<>>
    /\ pc' = "request"
    /\ UNCHANGED <<server, url, retries, last_err, resp, path, n, after, ret,
                   op, hist>>
    /\ UNCHANGED <<prog, tasks>>

(* while attempt < retries: the lookup and the request headers, 136-146 *)
Lookup ==
    /\ pc = "loop"
    /\ attempt < retries
    /\ attempt' = attempt + 1
    /\ \E g \in Get(files, url) :
        /\ hit' = g.hit
        /\ files' = g.files
        /\ hdr' = IF g.hit # <<>> /\ g.hit[1].key # EmptyStr
                  THEN <<g.hit[1].key>> ELSE <<>>
    /\ pc' = "request"
    /\ UNCHANGED <<server, url, retries, last_err, resp, path, n, after, ret,
                   op, hist>>
    /\ UNCHANGED <<prog, tasks>>

(* All attempts failed: line 245 *)
Exhausted ==
    /\ pc = "loop"
    /\ attempt >= retries
    /\ pc' = "failed"
    /\ UNCHANGED <<files, server, url, retries, attempt, last_err, hit, hdr,
                   resp, path, n, after, ret, op, hist>>
    /\ UNCHANGED <<prog, tasks>>

(* An outcome that trusts a 304 without looking at the cached file *)
OutcomeTrust304(r, h, fs) ==
    IF r.code = 304 /\ h # <<>>
    THEN [ret |-> <<h[1].name>>, err |-> <<>>, after |-> "return"]
    ELSE IF r.via = "resp"
    THEN [ret |-> <<>>, err |-> <<Err("UnexpectedStatus", r.code)>>,
          after |-> "backoff"]
    ELSE IF r.via = "httperror"
    THEN [ret |-> <<>>, err |-> <<Err("HTTPError", r.code)>>, after |-> "backoff"]
    ELSE [ret |-> <<>>, err |-> <<Err("URLError", 0)>>, after |-> "backoff"]

(* An outcome that does not record an unexpected status as the error *)
OutcomeStatusUnrecorded(r, h, fs) ==
    IF r.via = "resp" /\ r.code = 304 /\ h # <<>>
    THEN IF Usable(fs, h[1].name)
         THEN [ret |-> <<h[1].name>>, err |-> <<>>, after |-> "return"]
         ELSE [ret |-> <<>>, err |-> <<Err("CacheMissing", 304)>>,
               after |-> "continue"]
    ELSE IF r.via = "resp"
    THEN [ret |-> <<>>, err |-> <<>>, after |-> "backoff"]
    ELSE IF r.via = "httperror" /\ r.code = 304 /\ h # <<>>
    THEN IF Usable(fs, h[1].name)
         THEN [ret |-> <<h[1].name>>, err |-> <<>>, after |-> "return"]
         ELSE [ret |-> <<>>, err |-> <<Err("CacheMissing", 304)>>,
               after |-> "backoff"]
    ELSE IF r.via = "httperror"
    THEN [ret |-> <<>>, err |-> <<Err("HTTPError", r.code)>>, after |-> "backoff"]
    ELSE [ret |-> <<>>, err |-> <<Err("URLError", 0)>>, after |-> "backoff"]

(* The outcome of an attempt that ends without reading a body: what is     *)
(* returned or recorded, and where control goes after the finally block    *)
Outcome(r, h, fs) ==
    IF r.via = "resp" /\ r.code = 304 /\ h # <<>>
    THEN IF Usable(fs, h[1].name)
         THEN [ret |-> <<h[1].name>>, err |-> <<>>, after |-> "return"]
         ELSE [ret |-> <<>>, err |-> <<Err("CacheMissing", 304)>>,
               after |-> "continue"]
    ELSE IF r.via = "resp"
    THEN [ret |-> <<>>, err |-> <<Err("UnexpectedStatus", r.code)>>,
          after |-> "backoff"]
    ELSE IF r.via = "httperror" /\ r.code = 304 /\ h # <<>>
    THEN IF Usable(fs, h[1].name)
         THEN [ret |-> <<h[1].name>>, err |-> <<>>, after |-> "return"]
         ELSE [ret |-> <<>>, err |-> <<Err("CacheMissing", 304)>>,
               after |-> "backoff"]
    ELSE IF r.via = "httperror"
    THEN [ret |-> <<>>, err |-> <<Err("HTTPError", r.code)>>, after |-> "backoff"]
    ELSE [ret |-> <<>>, err |-> <<Err("URLError", 0)>>, after |-> "backoff"]

(* urlopen and the dispatch on the status: lines 146-162 and 216-226 *)
Request(r) ==
    /\ pc = "request"
    /\ resp' = <<r>>
    /\ IF r.via = "resp" /\ r.code = 200
       THEN /\ pc' = "admit"
            /\ hist' = [hist EXCEPT !.cur.xfer = TRUE, !.cur.reqs = @ + 1]
            /\ UNCHANGED <<ret, last_err, after, hit>>
       ELSE LET o == Outcome(r, hit, files)
            IN /\ ret' = o.ret
               /\ last_err' = IF o.err = <<>> THEN last_err ELSE o.err[1]
               /\ after' = o.after
               /\ hit' = IF o.after = "continue" THEN <<>> ELSE hit
               /\ pc' = "finally"
               /\ hist' = [hist EXCEPT
                     !.cur.short = FALSE,
                     !.cur.mismatch = FALSE,
                     !.cur.reqs = @ + 1,
                     !.cur.fails = IF o.err = <<>> THEN @ ELSE @ + 1,
                     !.cur.errAt = IF o.err = <<>> THEN @ ELSE attempt]
    /\ UNCHANGED <<files, server, url, retries, attempt, hdr, path, n, op>>
    /\ UNCHANGED <<prog, tasks>>

(* The headers of a 200 response and c.put: lines 164-172 *)
Admit ==
    /\ pc = "admit"
    /\ LET r == resp[1]
           expected_size == r.clen
           p == Put(files, url, r.etag,
                    IF expected_size = Absent THEN 0 ELSE expected_size)
       IN /\ path' = <<p.path>>
          /\ files' = p.files
    /\ pc' = "open"
    /\ UNCHANGED <<server, url, retries, attempt, last_err, hit, hdr, resp, n,
                   after, ret, op, hist>>
    /\ UNCHANGED <<prog, tasks>>

(* Remove any old tmp and open(tmp, 'wb'): lines 172-184 *)
Open ==
    /\ pc = "open"
    /\ LET tmp == AddTmp(path[1])
       IN files' = <<File(tmp, <<>>)>> \o RemoveName(files, tmp)
    /\ n' = 0
    /\ pc' = "write"
    /\ UNCHANGED <<server, url, retries, attempt, last_err, hit, hdr, resp,
                   path, after, ret, op, hist>>
    /\ UNCHANGED <<prog, tasks>>

(* f.write(buf): the file grows and becomes the most recently modified *)
Append1(fs, name, x) ==
    LET f == FileAt(fs, name)
    IN <<[f EXCEPT !.data = f.data \o <<x>>]>> \o RemoveName(fs, name)

(* response.read may deliver one more unit of the body *)
MoreToRead(r, count) ==
    IF r.body # <<>> THEN count < Len(r.body[1])
    ELSE count < MaxLen /\ (r.clen = Absent \/ count < r.clen)

(* response.read may return b'': the stream has ended *)
MayEnd(r, count) == IF r.body = <<>> THEN TRUE ELSE count = Len(r.body[1])

(* The error of the validation, <<>> if it passes: lines 200-210 *)
ValidationNoSize(r, count, data) ==
    IF _extract_md5_from_headers(r) # <<>>
       /\ Md5Hex(data) # _extract_md5_from_headers(r)[1]
    THEN <<Err("Checksum", 0)>>
    ELSE <<>>

ValidationNoMd5(r, count, data) ==
    IF r.clen # Absent /\ count # r.clen
    THEN <<Err("Incomplete", 0)>>
    ELSE <<>>

(* A validation that takes an empty body for a failed transfer *)
ValidationRejectsEmpty(r, count, data) ==
    IF count = 0 \/ (r.clen # Absent /\ count # r.clen)
    THEN <<Err("Incomplete", 0)>>
    ELSE IF _extract_md5_from_headers(r) # <<>>
            /\ Md5Hex(data) # _extract_md5_from_headers(r)[1]
    THEN <<Err("Checksum", 0)>>
    ELSE <<>>

(* A validation that compares the checksum before the size *)
ValidationMd5First(r, count, data) ==
    IF _extract_md5_from_headers(r) # <<>>
       /\ Md5Hex(data) # _extract_md5_from_headers(r)[1]
    THEN <<Err("Checksum", 0)>>
    ELSE IF r.clen # Absent /\ count # r.clen
    THEN <<Err("Incomplete", 0)>>
    ELSE <<>>

Validation(r, count, data) ==
    IF r.clen # Absent /\ count # r.clen
    THEN <<Err("Incomplete", 0)>>
    ELSE IF _extract_md5_from_headers(r) # <<>>
            /\ Md5Hex(data) # _extract_md5_from_headers(r)[1]
    THEN <<Err("Checksum", 0)>>
    ELSE <<>>

(* One round of the streaming loop: lines 185-187 *)
Write ==
    /\ pc = "write"
    /\ MoreToRead(resp[1], n)
    /\ n' = n + 1
    /\ files' = Append1(files, AddTmp(path[1]), 1)
    /\ UNCHANGED <<server, pc, url, retries, attempt, last_err, hit, hdr, resp,
                   path, after, ret, op, hist>>
    /\ UNCHANGED <<prog, tasks>>

(* response.read raises: the connection broke, line 223 *)
ReadError ==
    /\ pc = "write"
    /\ resp[1].body = <<>>
    /\ last_err' = Err("URLError", 0)
    /\ after' = "backoff"
    /\ pc' = "finally"
    /\ hist' = [hist EXCEPT !.cur.short = FALSE, !.cur.mismatch = FALSE,
                            !.cur.fails = @ + 1, !.cur.errAt = attempt]
    /\ UNCHANGED <<files, server, url, retries, attempt, hit, hdr, resp, path,
                   n, ret, op>>
    /\ UNCHANGED <<prog, tasks>>

(* The stream has ended; the validation: lines 200-210 *)
Validate ==
    /\ pc = "write"
    /\ MayEnd(resp[1], n)
    /\ LET r == resp[1]
           data == FileAt(files, AddTmp(path[1])).data
           e == Validation(r, n, data)
       IN /\ IF e # <<>>
             THEN /\ last_err' = e[1]
                  /\ after' = "backoff"
                  /\ pc' = "finally"
             ELSE /\ pc' = "publish"
                  /\ UNCHANGED <<last_err, after>>
          /\ hist' = [hist EXCEPT
                !.cur.short = @ /\ r.clen # Absent /\ n < r.clen,
                !.cur.mismatch = @ /\ (r.clen = Absent \/ n = r.clen)
                                   /\ _extract_md5_from_headers(r) # <<>>
                                   /\ _extract_md5_from_headers(r)[1] # Md5Hex(data),
                !.cur.fails = IF e = <<>> THEN @ ELSE @ + 1,
                !.cur.errAt = IF e = <<>> THEN @ ELSE attempt]
    /\ UNCHANGED <<files, server, url, retries, attempt, hit, hdr, resp, path,
                   n, ret, op>>
    /\ UNCHANGED <<prog, tasks>>

(* os.replace(src, dst): src takes the name dst, keeping its mtime *)
Replace(fs, src, dst) ==
    LET g == RemoveName(fs, dst)
    IN [i \in 1..Len(g) |->
          IF NameOf(g[i]) = src THEN File(dst, g[i].data) ELSE g[i]]

(* os.replace(tmp, path); return path: lines 213-214 *)
Publish ==
    /\ pc = "publish"
    /\ files' = Replace(files, AddTmp(path[1]), path[1])
    /\ ret' = path
    /\ after' = "return"
    /\ pc' = "finally"
    /\ UNCHANGED <<server, url, retries, attempt, last_err, hit, hdr, resp,
                   path, n, op, hist>>
    /\ UNCHANGED <<prog, tasks>>

(* A finally block that cleans nothing up *)
CleanupNothing(fs, u) == {fs}

(* The finally block, lines 227-236: the directories it may leave *)
Cleanup(fs, u) ==
    {IF g.hit # <<>> THEN RemoveName(g.files, AddTmp(g.hit[1].name))
                     ELSE g.files : g \in Get(fs, u)}

(* The finally block, then the return, the next round or the backoff.  The *)
(* locals of a failed attempt are dead: the next round assigns them anew.   *)
Finally ==
    /\ pc = "finally"
    /\ files' \in Cleanup(files, url)
    /\ pc' = CASE after = "return" -> "done"
               [] after = "continue" -> "loop"
               [] after = "backoff" -> "backoff"
               [] OTHER -> "killed"
    /\ IF after = "return"
       THEN UNCHANGED <<hit, hdr, resp, path, n>>
       ELSE hit' = <<>> /\ hdr' = <<>> /\ resp' = <<>> /\ path' = <<>> /\ n' = 0
    /\ UNCHANGED <<server, url, retries, attempt, last_err, after, ret, op, hist>>
    /\ UNCHANGED <<prog, tasks>>

(* The finally block when os.remove raises on the temporary file that      *)
(* c.get meets as matches[0] (lines 44-48): the error is swallowed, get     *)
(* returns None and the file stays                                          *)
FinallyStuck ==
    /\ pc = "finally"
    /\ \E i \in Matches(files, _url_to_path(url)) : files[i].tmp
    /\ files' = files
    /\ pc' = CASE after = "return" -> "done"
               [] after = "continue" -> "loop"
               [] after = "backoff" -> "backoff"
               [] OTHER -> "killed"
    /\ IF after = "return"
       THEN UNCHANGED <<hit, hdr, resp, path, n>>
       ELSE hit' = <<>> /\ hdr' = <<>> /\ resp' = <<>> /\ path' = <<>> /\ n' = 0
    /\ hist' = [hist EXCEPT !.cur.stuckAt = attempt]
    /\ UNCHANGED <<server, url, retries, attempt, last_err, after, ret, op>>
    /\ UNCHANGED <<prog, tasks>>

(* The longest sleep, in seconds *)
MaxDelay == 30

(* A delay that doubles without a cap *)
DelayUncapped(k) == 2 ^ (k - 1)

(* delay = min(2 ** (attempt - 1), 30) *)
Delay(k) == IF 2 ^ (k - 1) < MaxDelay THEN 2 ^ (k - 1) ELSE MaxDelay

(* Backoff before retry: lines 238-242 *)
Backoff ==
    /\ pc = "backoff"
    /\ pc' = "loop"
    /\ hist' = IF attempt < retries
               THEN [hist EXCEPT !.cur.naps =
                        Append(@, [k |-> attempt, d |-> Delay(attempt)])]
               ELSE hist
    /\ UNCHANGED <<files, server, url, retries, attempt, last_err, hit, hdr,
                   resp, path, n, after, ret, op>>
    /\ UNCHANGED <<prog, tasks>>

InTry == pc \in {"request", "admit", "open", "write", "publish"}

(* The call is interrupted by an exception that no except clause catches   *)
(* (KeyboardInterrupt): the finally block runs                             *)
Interrupt ==
    /\ InTry
    /\ after' = "raise"
    /\ ret' = <<>>
    /\ pc' = "finally"
    /\ UNCHANGED <<files, server, url, retries, attempt, last_err, hit, hdr,
                   resp, path, n, op, hist>>
    /\ UNCHANGED <<prog, tasks>>

(* The process dies: nothing more runs *)
Kill ==
    /\ pc \in {"loop", "backoff", "finally"} \/ InTry
    /\ pc' = "killed"
    /\ hit' = <<>> /\ hdr' = <<>> /\ resp' = <<>> /\ path' = <<>> /\ n' = 0
    /\ ret' = <<>>
    /\ UNCHANGED <<files, server, url, retries, attempt, last_err, after, op,
                   hist>>
    /\ UNCHANGED <<prog, tasks>>

Ended == pc \in {"done", "failed", "killed"}

(* What is remembered of a finished call *)
LogEntry ==
    [url |-> url, ok |-> pc = "done", ret |-> ret,
     clen |-> IF pc = "done" /\ hist.cur.xfer THEN resp[1].clen ELSE Absent,
     empty |-> hist.empty]

(* The caller goes on: the next call may start *)
Finish(keep) ==
    /\ Ended
    /\ pc' = "idle"
    /\ url' = <<>>
    /\ retries' = 0
    /\ attempt' = 0
    /\ last_err' = NoErr
    /\ hit' = <<>>
    /\ hdr' = <<>>
    /\ resp' = <<>>
    /\ path' = <<>>
    /\ n' = 0
    /\ after' = "none"
    /\ ret' = <<>>
    /\ hist' = [cur |-> NewCur, lost |-> hist.lost \ {url}, empty |-> TRUE,
                prev |-> IF keep THEN <<LogEntry>> ELSE <<>>]
    /\ UNCHANGED <<files, server, op>>
    /\ UNCHANGED <<prog, tasks>>

(* Somebody else deletes a cached file, before a call or between the       *)
(* lookup and the response                                                  *)
ExternalDelete(i) ==
    /\ pc \in {"idle", "request"}
    /\ i \in 1..Len(files)
    /\ ~files[i].tmp
    /\ files' = Remove(files, {i})
    /\ hist' = IF pc = "idle"
               THEN [hist EXCEPT !.lost = hist.lost \cup
                        {u \in URLS : _url_to_path(u) = files[i].stem}]
               ELSE IF _url_to_path(url) = files[i].stem
               THEN [hist EXCEPT !.cur.lostAt = attempt]
               ELSE [hist EXCEPT !.lost = hist.lost \cup
                        {u \in URLS : _url_to_path(u) = files[i].stem}]
    /\ UNCHANGED <<server, op>>
    /\ UNCHANGED callvars
    /\ UNCHANGED <<prog, tasks>>

-----------------------------------------------------------------------------
(* The streaming loop of download with its progress callback, lines 182-198, *)
(* on its own.  The callback touches neither the cache nor the locals of the *)
(* call, so the loop is followed here at a finer grain: sizes are counted in *)
(* units of half a mebibyte (MB == 2), prog.left is what the response still  *)
(* holds, prog.calls the first arguments of the calls of cb so far.          *)

Min(a, b) == IF a < b THEN a ELSE b

(* step counted in hundredths, whatever cb_count is *)
StepsPercent(count, expected_size, cb_count) ==
    {(count * 100) \div expected_size}

(* int((n / float(expected_size)) * cb_count): the quotient n / size is      *)
(* rounded to a float, so that a product that is a whole number in exact     *)
(* arithmetic may come out just below it (int(57 / 100.0 * 100) is 56)       *)
Steps(count, expected_size, cb_count) ==
    LET q == (count * cb_count) \div expected_size
    IN IF (count * cb_count) % expected_size = 0 /\ count % expected_size # 0
       THEN {q - 1, q} ELSE {q}

(* cb is called with the length of the last buffer *)
ReportedDelta(count, k) == k

(* The first argument of cb(n, expected_size) and of cb(n, None), after a    *)
(* buffer of k bytes has brought n to count                                  *)
Reported(count, k) == count

(* One round of the loop with a buffer of k bytes: lines 185-198 *)
ProgressRound(k) ==
    /\ k \in 1..Min(MB, prog.left)
    /\ LET count == prog.n + k
           read == [prog EXCEPT !.n = count, !.left = @ - k]
           called == [read EXCEPT !.calls = Append(@, Reported(count, k))]
       IN IF prog.size # Absent /\ prog.size # 0
          THEN \E step \in Steps(count, prog.size, prog.cb_count) :
                  prog' = IF step > prog.cb_i
                          THEN [called EXCEPT !.cb_i = step]
                          ELSE read
          ELSE prog' = IF count \div MB # (count - k) \div MB
                       THEN called
                       ELSE read
    /\ UNCHANGED <<files, server, op, hist>>
    /\ UNCHANGED callvars
    /\ UNCHANGED tasks

-----------------------------------------------------------------------------
(* Two download calls that run at the same time on one cache root, each    *)
(* with its own locals (tasks[t]).  A file that is open for writing stays  *)
(* the same file when its name is removed or given to another file: f is   *)
(* the name under which the file that the call writes to is linked, <<>>   *)
(* when no file is open or when the open file has no name any more.        *)

Tasks == {1, 2}

NoTask ==
    [pc |-> "idle", url |-> <<>>, retries |-> 0, attempt |-> 0,
     last_err |-> NoErr, hit |-> <<>>, hdr |-> <<>>, resp |-> <<>>,
     path |-> <<>>, n |-> 0, f |-> <<>>, after |-> "none", ret |-> <<>>]

(* The open files whose name is no longer in the directory fs have no name *)
Unlinked(ts, fs) ==
    [t \in Tasks |->
        IF ts[t].f # <<>> /\ ~Exists(fs, ts[t].f[1])
        THEN [ts[t] EXCEPT !.f = <<>>] ELSE ts[t]]

(* The requests of a healthy server that declares the length of the body   *)
(* and sends no Content-MD5 header                                          *)
PlainResponses(res, h) ==
    {r \in HonestResponses(res, h) :
        r.code = 200 => r.clen # Absent /\ r.cmd5 = <<>>}

(* download is called: lines 129-131 *)
TStart(t, u, r) ==
    /\ tasks[t].pc = "idle"
    /\ tasks' = [tasks EXCEPT ![t] = [NoTask EXCEPT !.pc = "loop", !.url = u,
                                                    !.retries = r]]
    /\ UNCHANGED <<files, server, op, hist, prog>>
    /\ UNCHANGED callvars

(* The loop head: lines 136-146 *)
TLookup(t) ==
    /\ tasks[t].pc = "loop"
    /\ tasks[t].attempt < tasks[t].retries
    /\ \E g \in Get(files, tasks[t].url) :
          /\ files' = g.files
          /\ tasks' = Unlinked(
                [tasks EXCEPT ![t] = [@ EXCEPT
                    !.attempt = @ + 1,
                    !.hit = g.hit,
                    !.hdr = IF g.hit # <<>> /\ g.hit[1].key # EmptyStr
                            THEN <<g.hit[1].key>> ELSE <<>>,
                    !.pc = "request"]], g.files)
    /\ UNCHANGED <<server, op, hist, prog>>
    /\ UNCHANGED callvars

(* All attempts failed: line 245 *)
TExhausted(t) ==
    /\ tasks[t].pc = "loop"
    /\ tasks[t].attempt >= tasks[t].retries
    /\ tasks' = [tasks EXCEPT ![t].pc = "failed"]
    /\ UNCHANGED <<files, server, op, hist, prog>>
    /\ UNCHANGED callvars

(* urlopen and the dispatch on the status: lines 146-162 and 216-226 *)
TRequest(t, r) ==
    /\ tasks[t].pc = "request"
    /\ IF r.via = "resp" /\ r.code = 200
       THEN tasks' = [tasks EXCEPT ![t] = [@ EXCEPT !.resp = <<r>>,
                                                     !.pc = "admit"]]
       ELSE LET o == Outcome(r, tasks[t].hit, files)
            IN tasks' = [tasks EXCEPT ![t] = [@ EXCEPT
                    !.resp = <<r>>,
                    !.ret = o.ret,
                    !.last_err = IF o.err = <<>> THEN @ ELSE o.err[1],
                    !.after = o.after,
                    !.hit = IF o.after = "continue" THEN <<>> ELSE @,
                    !.pc = "finally"]]
    /\ UNCHANGED <<files, server, op, hist, prog>>
    /\ UNCHANGED callvars

(* The headers of a 200 response and c.put: lines 164-172 *)
TAdmit(t) ==
    /\ tasks[t].pc = "admit"
    /\ LET r == tasks[t].resp[1]
           p == Put(files, tasks[t].url, r.etag,
                    IF r.clen = Absent THEN 0 ELSE r.clen)
       IN /\ files' = p.files
          /\ tasks' = Unlinked([tasks EXCEPT ![t] = [@ EXCEPT
                           !.path = <<p.path>>, !.pc = "open"]], p.files)
    /\ UNCHANGED <<server, op, hist, prog>>
    /\ UNCHANGED callvars

(* Remove any old tmp and open(tmp, 'wb'): lines 172-184.  The file that    *)
(* had the name before is another file than the one that is created.        *)
TOpen(t) ==
    /\ tasks[t].pc = "open"
    /\ LET tmp == AddTmp(tasks[t].path[1])
       IN /\ files' = <<File(tmp, <<>>)>> \o RemoveName(files, tmp)
          /\ tasks' = [u \in Tasks |->
                IF u = t
                THEN [tasks[u] EXCEPT !.f = <<tmp>>, !.n = 0, !.pc = "write"]
                ELSE IF tasks[u].f = <<tmp>>
                THEN [tasks[u] EXCEPT !.f = <<>>]
                ELSE tasks[u]]
    /\ UNCHANGED <<server, op, hist, prog>>
    /\ UNCHANGED callvars

(* One round of the streaming loop, lines 185-187: the bytes go to the open *)
(* file, under whatever name it is linked, or to a file without a name      *)
TWrite(t) ==
    /\ tasks[t].pc = "write"
    /\ MoreToRead(tasks[t].resp[1], tasks[t].n)
    /\ files' = IF tasks[t].f # <<>>
                THEN Append1(files, tasks[t].f[1], 1) ELSE files
    /\ tasks' = [tasks EXCEPT ![t].n = @ + 1]
    /\ UNCHANGED <<server, op, hist, prog>>
    /\ UNCHANGED callvars

(* The stream has ended and the file is closed; the validation, lines       *)
(* 200-210, counts the bytes read but takes the checksum of the file that   *)
(* has the name tmp now: open(tmp, 'rb') raises when there is none          *)
TValidate(t) ==
    /\ tasks[t].pc = "write"
    /\ MayEnd(tasks[t].resp[1], tasks[t].n)
    /\ LET r == tasks[t].resp[1]
           tmp == AddTmp(tasks[t].path[1])
           sized == r.clen = Absent \/ tasks[t].n = r.clen
           e == IF sized /\ _extract_md5_from_headers(r) # <<>>
                   /\ ~Exists(files, tmp)
                THEN <<Err("IOError", 0)>>
                ELSE Validation(r, tasks[t].n,
                                IF Exists(files, tmp)
                                THEN FileAt(files, tmp).data ELSE <<>>)
       IN tasks' = [tasks EXCEPT ![t] = [@ EXCEPT
                       !.f = <<>>,
                       !.last_err = IF e = <<>> THEN @ ELSE e[1],
                       !.after = IF e = <<>> THEN @ ELSE "backoff",
                       !.pc = IF e = <<>> THEN "publish" ELSE "finally"]]
    /\ UNCHANGED <<files, server, op, hist, prog>>
    /\ UNCHANGED callvars

(* os.replace(tmp, path); return path, lines 213-214: the file that has the *)
(* name tmp now takes the name path, and raises when there is none          *)
TPublish(t) ==
    /\ tasks[t].pc = "publish"
    /\ LET tmp == AddTmp(tasks[t].path[1])
           dst == tasks[t].path[1]
       IN IF Exists(files, tmp)
          THEN /\ files' = Replace(files, tmp, dst)
               /\ tasks' = [u \in Tasks |->
                     IF u = t
                     THEN [tasks[u] EXCEPT !.ret = <<dst>>, !.after = "return",
                                           !.pc = "finally"]
                     ELSE IF tasks[u].f = <<tmp>>
                     THEN [tasks[u] EXCEPT !.f = <<dst>>]
                     ELSE IF tasks[u].f = <<dst>>
                     THEN [tasks[u] EXCEPT !.f = <<>>]
                     ELSE tasks[u]]
          ELSE /\ files' = files
               /\ tasks' = [tasks EXCEPT ![t] = [@ EXCEPT
                               !.last_err = Err("IOError", 0),
                               !.after = "backoff", !.pc = "finally"]]
    /\ UNCHANGED <<server, op, hist, prog>>
    /\ UNCHANGED callvars

(* The finally block, then the return, the next round or the backoff *)
TFinally(t) ==
    /\ tasks[t].pc = "finally"
    /\ \E fs \in Cleanup(files, tasks[t].url) :
          /\ files' = fs
          /\ tasks' = Unlinked([tasks EXCEPT ![t] =
                IF tasks[t].after = "return"
                THEN [@ EXCEPT !.pc = "done"]
                ELSE [@ EXCEPT !.pc = IF tasks[t].after = "continue"
                                      THEN "loop" ELSE "backoff",
                               !.hit = <<>>, !.hdr = <<>>, !.resp = <<>>,
                               !.path = <<>>, !.n = 0]], fs)
    /\ UNCHANGED <<server, op, hist, prog>>
    /\ UNCHANGED callvars

(* Backoff before retry: lines 238-242 *)
TBackoff(t) ==
    /\ tasks[t].pc = "backoff"
    /\ tasks' = [tasks EXCEPT ![t].pc = "loop"]
    /\ UNCHANGED <<files, server, op, hist, prog>>
    /\ UNCHANGED callvars

(* A step of the call t *)
TStep(t) ==
    \/ TLookup(t)
    \/ TExhausted(t)
    \/ tasks[t].pc = "request"
       /\ \E r \in PlainResponses(server[tasks[t].url], tasks[t].hdr) :
             TRequest(t, r)
    \/ TAdmit(t)
    \/ TOpen(t)
    \/ TWrite(t)
    \/ TValidate(t)
    \/ TPublish(t)
    \/ TFinally(t)
    \/ TBackoff(t)

-----------------------------------------------------------------------------
(* Specifications *)

InitCall ==
    /\ pc = "idle"
    /\ url = <<>>
    /\ retries = 0
    /\ attempt = 0
    /\ last_err = NoErr
    /\ hit = <<>>
    /\ hdr = <<>>
    /\ resp = <<>>
    /\ path = <<>>
    /\ n = 0
    /\ after = "none"
    /\ ret = <<>>
    /\ op = <<>>
    /\ hist = NoHist

(* One caller downloading URL_A again and again from any server, with      *)
(* interruptions: the cache root starts empty *)
(* or holding an entry of URL_B that an earlier run has left               *)
Init ==
    /\ files \in {<<>>, <<File(Name(mangle(URL_B), HexEncode(Opaque(1)), FALSE),
                              Body(1, 2))>>}
    /\ server = [u \in URLS |-> Resource(<<>>, EmptyStr)]
    /\ InitCall
    /\ prog = NoProg
    /\ tasks = <<>>

Next ==
    \/ \E r \in 1..MaxRetries : Start(URL_A, r)
    \/ Lookup
    \/ Exhausted
    \/ \E r \in AnyResponses : Request(r)
    \/ Admit
    \/ Open
    \/ Write
    \/ ReadError
    \/ Validate
    \/ Publish
    \/ Finally
    \/ Backoff
    \/ Interrupt
    \/ Kill
    \/ Finish(FALSE)

Spec == Init /\ [][Next]_vars

(* One caller downloading URL_A from any server, never interrupted.  The   *)
(* interpreter keeps running the call: every step of it returns, urlopen    *)
(* and response.read within the timeout, time.sleep after the delay.  The   *)
(* caller need not call again.                                              *)
Step ==
    \/ Lookup
    \/ Exhausted
    \/ \E r \in AnyResponses : Request(r)
    \/ Admit
    \/ Open
    \/ Write
    \/ ReadError
    \/ Validate
    \/ Publish
    \/ Finally
    \/ Backoff

NextFair ==
    \/ \E r \in 1..MaxRetries : Start(URL_A, r)
    \/ Step
    \/ Finish(FALSE)

SpecFair == Init /\ [][NextFair]_vars /\ WF_vars(Step)

(* The caller of SpecFair on a root where another program has left a final *)
(* entry of URL_A whose suffix is not hex                                   *)
InitForeign ==
    /\ files \in {<<File(Name(mangle(URL_A), BadHex, FALSE), Body(1, l))>> :
                    l \in 0..1}
    /\ server = [u \in URLS |-> Resource(<<>>, EmptyStr)]
    /\ InitCall
    /\ prog = NoProg
    /\ tasks = <<>>

SpecForeign == InitForeign /\ [][NextFair]_vars

(* One caller with up to MaxBackoff attempts per call and a server that    *)
(* fails in every way the retry loop tells apart                            *)
BackoffResponses ==
    {NoBody("neterror", 0), NoBody("httperror", 304), NoBody("httperror", 500),
     NoBody("resp", 304), NoBody("resp", 204),
     Response("resp", 200, 0, Opaque(1), <<>>, <<>>),
     Response("resp", 200, 1, Opaque(1), <<>>, <<>>)}

InitBackoff ==
    /\ files = <<>>
    /\ server = [u \in URLS |-> Resource(<<>>, EmptyStr)]
    /\ InitCall
    /\ prog = NoProg
    /\ tasks = <<>>

NextBackoff ==
    \/ \E r \in 1..MaxBackoff : Start(URL_A, r)
    \/ Lookup
    \/ Exhausted
    \/ \E r \in BackoffResponses : Request(r)
    \/ Admit
    \/ Open
    \/ Write
    \/ ReadError
    \/ Validate
    \/ Publish
    \/ Finally
    \/ Backoff
    \/ Finish(FALSE)

SpecBackoff == InitBackoff /\ [][NextBackoff]_vars

(* The caller of SpecFair on a file system where removing a file may fail *)
NextCleanup ==
    \/ NextFair
    \/ FinallyStuck

SpecCleanup == Init /\ [][NextCleanup]_vars

(* The headers of a 200 response on their own: any entity tag in any of the *)
(* forms servers send it in, any Content-MD5 header, and a body of one byte *)
HintCores == {EmptyStr, Opaque(1), ShortHex(1), WrongMd5, Md5Hex(Body(1, 1))}

HintForms ==
    {"bare", "quoted", "weak", "weakbare", "quotedweak", "padded", "weakweak"}

Wrap(form, s) ==
    CASE form = "bare" -> s
      [] form = "quoted" -> Quoted(s)
      [] form = "weak" -> Weak(Quoted(s))
      [] form = "weakbare" -> Weak(s)
      [] form = "quotedweak" -> Quoted(Weak(s))
      [] form = "padded" -> Padded(Quoted(s))
      [] OTHER -> Weak(Weak(Quoted(s)))

HintChecksums ==
    {<<>>, <<EmptyStr>>, <<NotBase64>>, <<Base64(EmptyStr)>>,
     <<Base64(ShortHex(1))>>, <<Base64(WrongMd5)>>,
     <<Base64(Md5Hex(Body(1, 1)))>>}

ExtractHint(core, form, cmd5) ==
    /\ op = <<>>
    /\ LET r == Response("resp", 200, Absent, Wrap(form, core), cmd5, <<>>)
       IN op' = <<[name |-> "hint", url |-> <<>>, size |-> 0, before |-> <<>>,
                   first |-> 0, core |-> core, form |-> form, cmd5 |-> cmd5,
                   hint |-> _extract_md5_from_headers(r),
                   err |-> Validation(r, 1, Body(1, 1))]>>
    /\ UNCHANGED <<files, server, pc, url, retries, attempt, last_err, hit, hdr,
                   resp, path, n, after, ret, hist>>
    /\ UNCHANGED <<prog, tasks>>

InitHint ==
    /\ files = <<>>
    /\ server = [u \in URLS |-> Resource(<<>>, EmptyStr)]
    /\ InitCall
    /\ prog = NoProg
    /\ tasks = <<>>

NextHint ==
    \E core \in HintCores : \E form \in HintForms : \E cmd5 \in HintChecksums :
        ExtractHint(core, form, cmd5)

SpecHint == InitHint /\ [][NextHint]_vars

(* Two calls at the same time: the first downloads URL_A, the second URL_A *)
(* or URL_B, from a healthy server whose two bodies together exceed the     *)
(* budget of the cache                                                      *)
InitTwo ==
    /\ files = <<>>
    /\ server = [u \in URLS |->
                   IF u = URL_A THEN Resource(Body(1, MaxLen), Opaque(1))
                   ELSE Resource(Body(1, MaxLen - 1), Opaque(2))]
    /\ InitCall
    /\ prog = NoProg
    /\ tasks = [t \in Tasks |-> NoTask]

NextTwo ==
    \/ \E r \in 1..MaxRetries : TStart(1, URL_A, r)
    \/ \E u \in URLS, r \in 1..MaxRetries : TStart(2, u, r)
    \/ \E t \in Tasks : TStep(t)

SpecTwo == InitTwo /\ [][NextTwo]_vars

(* The caller of SpecFair on a root that holds an entry admitted for a URL  *)
(* whose path continues the path of URL_A after a "/": the mangled path of  *)
(* URL_A followed by "-" is the beginning of the other entry's name          *)
URL_AB == <<"/", "a", "/", "b">>

InitNested ==
    /\ files = <<File(Name(mangle(URL_AB), HexEncode(Opaque(2)), FALSE),
                      Body(2, 1))>>
    /\ server = [u \in URLS |-> Resource(<<>>, EmptyStr)]
    /\ InitCall
    /\ prog = NoProg
    /\ tasks = <<>>

SpecNested == InitNested /\ [][NextFair]_vars

(* The caller of SpecFair on a root that holds an entry of URL_A and a temp *)
(* file that a download of URL_AB has left behind                           *)
InitStale ==
    /\ files = <<File(Name(mangle(URL_A), HexEncode(Opaque(1)), FALSE),
                      Body(1, 1)),
                 File(Name(mangle(URL_AB), HexEncode(Opaque(2)), TRUE),
                      Body(1, 1))>>
    /\ server = [u \in URLS |-> Resource(<<>>, EmptyStr)]
    /\ InitCall
    /\ prog = NoProg
    /\ tasks = <<>>

SpecStale == InitStale /\ [][NextFair]_vars

(* The streaming loop on its own: any declared size, any body, any cb_count *)
(* and any chunking.  A body longer than the declared size is what a        *)
(* chunked response that also carries a Content-Length delivers.            *)
ProgInputs ==
    {[size |-> s, cb_count |-> c, left |-> b, n |-> 0, cb_i |-> -1,
      calls |-> <<>>] :
        s \in {Absent} \cup (0..MaxSize), c \in 1..MaxCb, b \in 0..MaxBody}

InitProgress ==
    /\ files = <<>>
    /\ server = [u \in URLS |-> Resource(<<>>, EmptyStr)]
    /\ InitCall
    /\ prog \in ProgInputs
    /\ tasks = <<>>

NextProgress == \E k \in 1..MB : ProgressRound(k)

SpecProgress == InitProgress /\ [][NextProgress]_vars

(* The Cache operations alone, on an arbitrary cache root *)
(* first is the index of matches[0] in the directory, 0 without a match *)
CacheGet(u) ==
    /\ op = <<>>
    /\ LET m == Matches(files, _url_to_path(u))
       IN \E i \in IF m = {} THEN {0} ELSE m :
            LET g == IF i = 0 THEN [hit |-> <<>>, files |-> files]
                     ELSE GetAt(files, i)
            IN /\ hit' = g.hit
               /\ files' = g.files
               /\ op' = <<[name |-> "get", url |-> u, size |-> 0,
                           before |-> files, first |-> i]>>
    /\ UNCHANGED <<server, pc, url, retries, attempt, last_err, hdr, resp,
                   path, n, after, ret, hist>>
    /\ UNCHANGED <<prog, tasks>>

CachePut(u, key, size) ==
    /\ op = <<>>
    /\ LET p == Put(files, u, key, size)
       IN /\ path' = <<p.path>>
          /\ files' = p.files
    /\ op' = <<[name |-> "put", url |-> u, size |-> size, before |-> files,
                first |-> 0]>>
    /\ UNCHANGED <<server, pc, url, retries, attempt, last_err, hit, hdr, resp,
                   n, after, ret, hist>>
    /\ UNCHANGED <<prog, tasks>>

(* Cache._accomodate called on its own, on any root or right after a get *)
CacheAccommodate(size) ==
    /\ op = <<>> \/ (op # <<>> /\ op[1].name = "get")
    /\ files' = _accomodate(files, size)
    /\ op' = <<[name |-> "accomodate",
                url |-> IF op = <<>> THEN <<>> ELSE op[1].url,
                size |-> size, before |-> files,
                first |-> IF op = <<>> THEN 0 ELSE op[1].first]>>
    /\ UNCHANGED <<server, pc, url, retries, attempt, last_err, hit, hdr, resp,
                   path, n, after, ret, hist>>
    /\ UNCHANGED <<prog, tasks>>

(* Cache._accomodate on a root whose files fail as plan says *)
CacheAccommodateEnv(size, plan) ==
    /\ op = <<>>
    /\ LET a == _accomodateEnv(files, size, plan)
       IN /\ files' = a.files
          /\ op' = <<[name |-> "accomodate_env", url |-> <<>>, size |-> size,
                      before |-> files, first |-> 0, plan |-> plan,
                      raised |-> a.raised, examined |-> a.examined]>>
    /\ UNCHANGED <<server, pc, url, retries, attempt, last_err, hit, hdr, resp,
                   path, n, after, ret, hist>>
    /\ UNCHANGED <<prog, tasks>>

(* The file names and contents an arbitrary cache root may hold *)
CacheNames ==
    {Name(mangle(u), x, t) :
        u \in URLS, x \in {HexEncode(NulStr), HexEncode(Opaque(1)), BadHex},
        t \in BOOLEAN}

CacheFiles ==
    {File(nm, Body(1, l)) : nm \in CacheNames, l \in {0, MaxLen - 1, MaxLen}}

Distinct(fs) ==
    \A i, j \in 1..Len(fs) : NameOf(fs[i]) = NameOf(fs[j]) => i = j

CacheRoots ==
    {fs \in UNION {[1..k -> CacheFiles] : k \in 0..MaxFiles} : Distinct(fs)}

InitCache ==
    /\ files \in CacheRoots
    /\ server = [u \in URLS |-> Resource(<<>>, EmptyStr)]
    /\ InitCall
    /\ prog = NoProg
    /\ tasks = <<>>

NextCache ==
    \/ \E u \in URLS : CacheGet(u)
    \/ \E u \in URLS, key \in {EmptyStr, Opaque(1)}, size \in 0..(max_size + 1) :
          CachePut(u, key, size)
    \/ \E size \in 0..(max_size + 1) : CacheAccommodate(size)

SpecCache == InitCache /\ [][NextCache]_vars

(* Cache._accomodate with failing files, on the roots that hold final       *)
(* entries of the two URLs                                                  *)
FailRoots ==
    {fs \in UNION {[1..k -> {f \in CacheFiles :
                                ~f.tmp /\ f.suffix = HexEncode(Opaque(1))}] :
                      k \in 0..MaxFiles} : Distinct(fs)}

InitCacheFail ==
    /\ files \in FailRoots
    /\ server = [u \in URLS |-> Resource(<<>>, EmptyStr)]
    /\ InitCall
    /\ prog = NoProg
    /\ tasks = <<>>

NextCacheFail ==
    \E size \in 0..(max_size + 1) :
        \E plan \in [1..Len(files) -> {"ok", "lost", "gone", "stuck"}] :
            CacheAccommodateEnv(size, plan)

SpecCacheFail == InitCacheFail /\ [][NextCacheFail]_vars

(* One caller downloading from a healthy server; somebody else may delete *)
(* cached files; the cache root starts empty                              *)
InitHonest ==
    /\ files = <<>>
    /\ server \in [URLS -> Resources]
    /\ InitCall
    /\ prog = NoProg
    /\ tasks = <<>>

NextHonest ==
    \/ \E u \in URLS, r \in 1..MaxRetries : Start(u, r)
    \/ Lookup
    \/ Exhausted
    \/ pc = "request" /\ \E r \in HonestResponses(server[url], hdr) : Request(r)
    \/ Admit
    \/ Open
    \/ Write
    \/ Validate
    \/ Publish
    \/ Finally
    \/ Backoff
    \/ Finish(TRUE)
    \/ \E i \in 1..Len(files) : ExternalDelete(i)

SpecHonest == InitHonest /\ [][NextHonest]_vars

-----------------------------------------------------------------------------
(* Properties *)

Finals(fs) == {i \in 1..Len(fs) : ~fs[i].tmp}

Returned200 == pc = "done" /\ resp # <<>> /\ resp[1].code = 200

(* The size and the checksum checks of the response r hold of the data *)
ChecksHold(r, data) ==
    /\ r.clen # Absent => Len(data) = r.clen
    /\ _extract_md5_from_headers(r) # <<>>
          => Md5Hex(data) = _extract_md5_from_headers(r)[1]

(* C1: when download returns a path after a 200 response, the number of  *)
(* bytes received equals the declared Content-Length (if declared) and the *)
(* MD5 of the file equals the integrity hint (if obtained); a 200 response *)
(* never leads to a returned path when either check fails.                 *)
C1_ReturnedFileValidated ==
    Returned200 =>
        /\ ret = path
        /\ Exists(files, ret[1])
        /\ resp[1].clen # Absent => n = resp[1].clen
        /\ ChecksHold(resp[1], FileAt(files, ret[1]).data)

C1_Witness ==
    /\ Returned200
    /\ attempt = 2
    /\ resp[1].clen = 2
    /\ _extract_md5_from_headers(resp[1]) # <<>>

(* C2: for a single caller running calls one after another, with          *)
(* interruptions at any step, a file appears under a final (non-_tmp) name *)
(* only through the rename performed after the stream has ended and the    *)
(* size and checksum checks have passed, and the content of a file under a *)
(* final name never changes: body bytes are only written under _tmp names. *)
C2_FinalOnlyByValidatedRename ==
    [][\A i \in Finals(files') :
          \/ \E j \in Finals(files) : files[j] = files'[i]
          \/ /\ pc = "publish"
             /\ NameOf(files'[i]) = path[1]
             /\ Len(files'[i].data) = n
             /\ ChecksHold(resp[1], files'[i].data)]_vars

C2_Witness ==
    /\ pc = "killed"
    /\ \E i \in Finals(files) :
          files[i].stem = mangle(URL_A) /\ Size(files[i]) = MaxLen

NoFinal(u) == \A i \in Finals(files) : files[i].stem # _url_to_path(u)

AfterFirstAdmit ==
    \/ attempt >= 2
    \/ attempt = 1 /\ pc \in {"open", "write", "publish", "finally", "backoff",
                              "loop", "failed", "done"}

(* C3: given a server whose every response declares a Content-Length      *)
(* larger than the body it delivers, download never creates a file under   *)
(* the final cache name for that URL, and after `retries` attempts it      *)
(* fails with the terminal error whose last error is the incomplete-       *)
(* transfer error.                                                        *)
C3_ShortBodiesNeverPublished ==
    (hist.cur.short /\ pc \notin {"idle", "killed"} /\ after # "raise") =>
        /\ AfterFirstAdmit => NoFinal(url)
        /\ pc \notin {"publish", "done"}
        /\ pc = "failed" => attempt = retries /\ last_err = Err("Incomplete", 0)

C3_Witness == pc = "failed" /\ hist.cur.short /\ retries = 2

(* C4: given a checksum mismatch on every attempt, download fails after   *)
(* exactly `retries` attempts and, when it fails, the cache contains no    *)
(* file at the final path for that URL and no _tmp file for it either.     *)
C4_MismatchLeavesNothing ==
    (hist.cur.mismatch /\ pc \notin {"idle", "killed"} /\ after # "raise") =>
        /\ pc \notin {"publish", "done"}
        /\ pc = "failed" =>
              /\ attempt = retries
              /\ last_err = Err("Checksum", 0)
              /\ Matches(files, _url_to_path(url)) = {}

C4_Witness == pc = "failed" /\ hist.cur.mismatch /\ retries = 2

(* C9: in every state reachable by a single caller, at most one           *)
(* non-temporary entry exists in the cache root per CacheKey.              *)
C9_OneFinalPerKey ==
    \A i, j \in Finals(files) : files[i].stem = files[j].stem => i = j

C9_Witness ==
    /\ Returned200
    /\ hit # <<>>
    /\ hit[1].name # ret[1]
    /\ hit[1].name.stem = ret[1].stem

IsOp(name) == op # <<>> /\ op[1].name = name

(* C7: after Accommodate(size), as put runs it, the total size of the     *)
(* files remaining in the cache root plus size does not exceed max_size,   *)
(* except when size alone exceeds max_size: then the cache is emptied and  *)
(* the incoming entry is still admitted (put returns its path).            *)
C7_AccommodateBudget ==
    IsOp("put") =>
        /\ path # <<>>
        /\ \/ TotalSize(files) + op[1].size <= max_size
           \/ op[1].size > max_size /\ files = <<>>

C7_Witness ==
    /\ IsOp("put")
    /\ Len(op[1].before) = 2
    /\ Matches(op[1].before, _url_to_path(op[1].url)) = {}
    /\ Len(files) = 1
    /\ op[1].size > 0

(* C10: Lookup never returns a path that ends in _tmp: for every cache    *)
(* content the result of Cache.get is a miss or a non-temporary file.      *)
C10_GetNeverReturnsTmp ==
    IsOp("get") => hit = <<>> \/ ~hit[1].name.tmp

C10_Witness ==
    /\ IsOp("get")
    /\ hit = <<>>
    /\ \E i \in Matches(op[1].before, _url_to_path(op[1].url)) : op[1].before[i].tmp
    /\ \E i \in Matches(op[1].before, _url_to_path(op[1].url)) : ~op[1].before[i].tmp

CallOver == pc \in {"done", "failed"}

(* The call is a second Download of a URL whose first Download succeeded, *)
(* with no deletion by somebody else since                                *)
SecondDownload ==
    /\ CallOver
    /\ hist.prev # <<>>
    /\ hist.prev[1].ok
    /\ hist.prev[1].url = url
    /\ url \notin hist.lost
    /\ hist.cur.lostAt = 0

(* C5 as stated: for every resource on which a first Download(U)          *)
(* succeeded and which the server has not changed since, a second         *)
(* Download(U) returns the same file path without transferring the body.   *)
C5_Original ==
    SecondDownload => pc = "done" /\ ret = hist.prev[1].ret /\ ~hist.cur.xfer

(* C5: for every resource served with a non-empty entity tag and a        *)
(* non-empty body on which a first Download(U) succeeded and which the     *)
(* server has not changed since, a second Download(U) returns the same     *)
(* file path without transferring the body again.                         *)
C5_SecondDownloadReuses ==
    (SecondDownload /\ server[url].etag # EmptyStr /\ Len(server[url].body) > 0)
        => pc = "done" /\ ret = hist.prev[1].ret /\ ~hist.cur.xfer

C5_Witness ==
    /\ SecondDownload
    /\ server[url].etag # EmptyStr
    /\ Len(server[url].body) > 0
    /\ pc = "done"
    /\ resp[1].code = 304

Deleted == url \in hist.lost \/ hist.cur.lostAt > 0

Refetched ==
    /\ pc = "done"
    /\ hist.cur.xfer
    /\ resp[1].code = 200
    /\ ret = path
    /\ Exists(files, ret[1])
    /\ FileAt(files, ret[1]).data = server[url].body

(* C6 as stated: if the cached file is deleted externally, before the     *)
(* call or between the lookup and the 304 response, Download(U) does not   *)
(* fail: it performs a full re-fetch and returns a valid path.             *)
C6_Original == (CallOver /\ Deleted) => Refetched

(* C6: if the cached file is deleted externally before the call, or       *)
(* between the lookup and the response of an attempt that is not the last  *)
(* one (attempt < retries), Download(U) from a healthy server does not     *)
(* fail: it performs a full re-fetch and returns a valid path.             *)
C6_DeletedFileRefetched ==
    (CallOver /\ Deleted /\ hist.cur.lostAt < retries) => Refetched

C6_Witness ==
    /\ CallOver
    /\ hist.cur.lostAt = 1
    /\ attempt = 2
    /\ Refetched

(* The scenario of C8: the previous call started on an empty cache and    *)
(* published A with declared size a, this call published B with declared   *)
(* size b, a <= max_size, b <= max_size, a + b > max_size                  *)
EvictionScenario ==
    /\ Returned200
    /\ hist.prev # <<>>
    /\ hist.prev[1].ok
    /\ hist.prev[1].empty
    /\ hist.prev[1].url # url
    /\ hist.prev[1].clen # Absent
    /\ resp[1].clen # Absent
    /\ hist.prev[1].clen <= max_size
    /\ resp[1].clen <= max_size
    /\ hist.prev[1].clen + resp[1].clen > max_size

(* C8: starting from an empty cache, after a successful Download(A) of    *)
(* declared size a and then a successful Download(B) of declared size b    *)
(* for a different key, with a <= max_size, b <= max_size and              *)
(* a + b > max_size, the cache contains exactly B's entry.                 *)
C8_SecondEvictsFirst ==
    EvictionScenario =>
        /\ Len(files) = 1
        /\ NameOf(files[1]) = ret[1]
        /\ files[1].stem = _url_to_path(url)
        /\ Size(files[1]) = resp[1].clen

C8_Witness == EvictionScenario /\ hist.lost = {} /\ hist.cur.lostAt = 0

TmpMatches(fs, u) == {i \in Matches(fs, _url_to_path(u)) : fs[i].tmp}

(* C11 as stated: whenever a _tmp file matching the URL's pattern exists   *)
(* when Lookup(url) is called, that Lookup deletes it and reports a miss,   *)
(* and no _tmp file matching the key remains after it, whatever other files *)
(* match the pattern and in whatever order the directory lists them.        *)
C11_Original ==
    (IsOp("get") /\ TmpMatches(op[1].before, op[1].url) # {}) =>
        /\ hit = <<>>
        /\ TmpMatches(files, op[1].url) = {}

(* C11: whenever the first file the directory lists for the URL's pattern  *)
(* is a _tmp file, Lookup deletes that file, leaves every other file alone  *)
(* and reports a miss; if no other _tmp file matched the pattern, no _tmp   *)
(* file matching the key remains after Lookup returns.                      *)
C11_FirstTmpDeleted ==
    (IsOp("get") /\ op[1].first # 0 /\ op[1].before[op[1].first].tmp) =>
        /\ hit = <<>>
        /\ files = Remove(op[1].before, {op[1].first})
        /\ TmpMatches(op[1].before, op[1].url) = {op[1].first}
              => TmpMatches(files, op[1].url) = {}

C11_Witness ==
    /\ IsOp("get")
    /\ op[1].first # 0
    /\ op[1].before[op[1].first].tmp
    /\ Cardinality(Matches(op[1].before, _url_to_path(op[1].url))) = 2
    /\ TmpMatches(files, op[1].url) = {}

(* The response carries an HTTP status outside {200, 304} *)
BadStatus(r) == r.via \in {"resp", "httperror"} /\ r.code \notin {200, 304}

(* C12: a response whose HTTP status is outside {200, 304} makes the       *)
(* attempt fail: the step that receives it admits nothing (path stays       *)
(* unset), leaves the cache root as it is, returns no path and records the  *)
(* status as the attempt's error; the finally block that follows creates no *)
(* file and keeps the error, and control goes to the backoff.               *)
C12_BadStatusFailsAttempt ==
    [][/\ (pc = "request" /\ resp' # <<>> /\ BadStatus(resp'[1])) =>
              /\ pc' = "finally"
              /\ after' = "backoff"
              /\ ret' = <<>>
              /\ path' = <<>>
              /\ files' = files
              /\ last_err' = Err(IF resp'[1].via = "resp"
                                 THEN "UnexpectedStatus" ELSE "HTTPError",
                                 resp'[1].code)
              /\ hist'.cur.errAt = attempt
       /\ (pc = "finally" /\ resp # <<>> /\ BadStatus(resp[1])) =>
              /\ pc' \in {"backoff", "killed"}
              /\ ret' = <<>>
              /\ path' = <<>>
              /\ last_err' = last_err
              /\ \A i \in 1..Len(files') : \E j \in 1..Len(files) :
                    files[j] = files'[i]]_vars

C12_Witness ==
    /\ pc = "finally"
    /\ resp # <<>>
    /\ resp[1].code = 204
    /\ attempt = 2
    /\ last_err = Err("UnexpectedStatus", 204)
    /\ Matches(files, _url_to_path(url)) # {}

C14_TerminalAfterLastAttempt ==
    /\ pc = "failed" =>
          /\ attempt = retries
          /\ hist.cur.fails = retries
          /\ hist.cur.errAt = retries
          /\ last_err # NoErr
          /\ ret = <<>>
    /\ (pc \in {"backoff", "loop"} /\ hist.cur.fails < retries) =>
          attempt < retries

C14_Witness ==
    /\ pc = "failed"
    /\ retries = 2
    /\ hist.cur.errAt = 2
    /\ last_err = Err("HTTPError", 500)

CacheMissing == Err("CacheMissing", 304)

(* C15: if an attempt receives a 304 response but the cached file is       *)
(* missing or empty, that attempt counts as failed (nothing is returned,    *)
(* the next round follows) and the request of the next attempt is issued    *)
(* without the If-None-Match header.                                        *)
C15_NextRequestUnconditional ==
    /\ (pc = "finally" /\ last_err = CacheMissing /\ hist.cur.errAt = attempt)
          => ret = <<>> /\ after \in {"backoff", "continue"}
    /\ (pc = "request" /\ last_err = CacheMissing /\ hist.cur.errAt = attempt - 1)
          => hdr = <<>>

(* The total size is known and no more than it is received *)
KnownSize == prog.size > 0 /\ prog.n + prog.left <= prog.size

(* C16 as stated: when the total size is known (a positive Content-Length) *)
(* the progress callback is invoked at most cb_count times during one       *)
(* attempt, for every body size, chunking and cb_count >= 1; here only for  *)
(* the bodies that are not longer than the declared size.                   *)
C16_Original == KnownSize => Len(prog.calls) <= prog.cb_count

(* C16: when the total size is known (a positive Content-Length) and the   *)
(* body is not longer than it, the progress callback is invoked at most     *)
(* cb_count + 1 times during one attempt, for every chunking and            *)
(* cb_count >= 1.                                                           *)
C16_AtMostCbCountPlusOne == KnownSize => Len(prog.calls) <= prog.cb_count + 1

C16_Witness ==
    /\ KnownSize
    /\ prog.left = 0
    /\ prog.n = prog.size
    /\ prog.cb_count = 2
    /\ Len(prog.calls) = 3

(* C17: within one attempt, successive invocations of the progress         *)
(* callback report strictly increasing byte counts, in the known-size and   *)
(* in the unknown-size branch.                                              *)
C17_CountsStrictlyIncrease ==
    \A i, j \in 1..Len(prog.calls) : i < j => prog.calls[i] < prog.calls[j]

C17_Witness ==
    /\ prog.size = Absent
    /\ Len(prog.calls) = 2
    /\ prog.calls[2] # 2 * MB

(* The headers of the response r admit an empty body *)
ZeroAccepted(r) ==
    /\ r.clen \in {Absent, 0}
    /\ _extract_md5_from_headers(r) # <<>>
          => _extract_md5_from_headers(r)[1] = Md5Hex(<<>>)

(* C18: a 200 response with a zero-length body is accepted and published   *)
(* under the final cache name exactly when the declared size is zero or     *)
(* absent and any integrity hint matches the empty body; with a declared    *)
(* size greater than zero the attempt fails as an incomplete transfer.      *)
C18_EmptyBody ==
    [][/\ (Validate /\ n = 0) =>
              IF ZeroAccepted(resp[1])
              THEN pc' = "publish"
              ELSE /\ pc' = "finally"
                   /\ after' = "backoff"
                   /\ resp[1].clen > 0 => last_err' = Err("Incomplete", 0)
       /\ (Publish /\ n = 0) =>
              /\ after' = "return"
              /\ ret' = path
              /\ ~path[1].tmp
              /\ Exists(files', path[1])
              /\ FileAt(files', path[1]).data = <<>>
              /\ ~Exists(files', AddTmp(path[1]))]_vars

C18_Witness ==
    /\ Returned200
    /\ n = 0
    /\ resp[1].clen = 0
    /\ _extract_md5_from_headers(resp[1]) # <<>>
    /\ FileAt(files, ret[1]).data = <<>>

(* The request carries If-None-Match exactly when the lookup returned an   *)
(* entry with non-empty validator bytes, and then these bytes               *)
HeaderOf(h, lookedup) ==
    /\ h # <<>> <=> (lookedup # <<>> /\ lookedup[1].key # EmptyStr)
    /\ h # <<>> => (lookedup # <<>> /\ h[1] = lookedup[1].key)

(* C19: every attempt starts with a fresh Lookup on the cache root as it   *)
(* is then; the request carries an If-None-Match header if and only if the  *)
(* Lookup returned an entry that carries a validator, the header value is   *)
(* that entry's decoded validator, and with a miss there is no header.      *)
C19_FreshLookupDecidesHeader ==
    [][/\ (pc' = "request" /\ pc # "request") =>
              /\ pc = "loop"
              /\ attempt' = attempt + 1
              /\ [hit |-> hit', files |-> files'] \in Get(files, url)
              /\ HeaderOf(hdr', hit')
       /\ (pc = "request" /\ resp' # <<>>) =>
              /\ hist'.cur.reqs = attempt
              /\ HeaderOf(hdr, hit)]_vars

C19_Witness ==
    /\ pc = "request"
    /\ attempt = 2
    /\ hit # <<>>
    /\ hdr = <<Opaque(1)>>

(* The previous call published or reused the entry of the URL of this     *)
(* call, the server's entity tag being the validator it was admitted with,  *)
(* nobody has deleted the entry, and the first Lookup of this call is done  *)
LookupAfterPublication ==
    /\ pc = "request"
    /\ attempt = 1
    /\ hist.prev # <<>>
    /\ hist.prev[1].ok
    /\ hist.prev[1].url = url
    /\ url \notin hist.lost

(* C20: validator round trip: for every validator v, the empty one         *)
(* included, after Admit(url, v, size) and the publication of a file at     *)
(* the returned path, Lookup(url) returns that path together with validator *)
(* bytes equal to v (empty bytes for the empty validator).                  *)
C20_ValidatorRoundTrip ==
    LookupAfterPublication =>
        /\ hit # <<>>
        /\ hit[1].name = hist.prev[1].ret[1]
        /\ hit[1].key = server[url].etag

(* C21: Accommodate(incoming) retains exactly the longest prefix of the    *)
(* entries, most recently used first, whose cumulative size plus incoming   *)
(* is <= max_size and deletes every other entry: an entry is deleted iff    *)
(* the sizes of all more recently used entries plus its own size plus       *)
(* incoming exceed max_size.                                                *)
C21_LongestPrefixRetained ==
    IsOp("accomodate") =>
        LET b == op[1].before
        IN /\ Len(files) <= Len(b)
           /\ files = SubSeq(b, 1, Len(files))
           /\ \A i \in 1..Len(b) :
                 i > Len(files) <=>
                    TotalSize(SubSeq(b, 1, i)) + op[1].size > max_size

C21_Witness ==
    /\ IsOp("accomodate")
    /\ op[1].url = <<>>
    /\ Len(op[1].before) = 2
    /\ Size(op[1].before[2]) = 0
    /\ files = <<>>
    /\ op[1].size = 2

(* C22: a failure on an individual file during Accommodate (the file       *)
(* cannot be removed, or it has already disappeared when it is listed,      *)
(* stat-ed or sorted) never aborts the pass: every remaining entry is still *)
(* examined and Accommodate returns normally to Admit.                      *)
C22_FileFailureNeverAborts ==
    IsOp("accomodate_env") =>
        /\ ~op[1].raised
        /\ op[1].examined = 1..Len(op[1].before)

(* The root fs without the files that put removes for u, in the same order *)
OtherKeys(fs, u) == Remove(fs, Matches(fs, _url_to_path(u)))

(* C23: Admit(url, validator, size) first removes every existing file of   *)
(* the URL's key, final or temporary, then runs Accommodate(size), so that  *)
(* the replaced entry's size is not counted against the budget; when it     *)
(* returns no file exists at the returned target path and Admit has created *)
(* no file.                                                                 *)
C23_AdmitReplacesThenAccommodates ==
    IsOp("put") =>
        LET b == OtherKeys(op[1].before, op[1].url)
        IN /\ \A i \in 1..Len(files) : files[i].stem # _url_to_path(op[1].url)
           /\ ~Exists(files, path[1])
           /\ ~Exists(files, AddTmp(path[1]))
           /\ Len(files) <= Len(b)
           /\ files = SubSeq(b, 1, Len(files))
           /\ Len(files) < Len(b) =>
                 TotalSize(SubSeq(b, 1, Len(files) + 1)) + op[1].size > max_size

C23_Witness ==
    /\ IsOp("put")
    /\ Len(op[1].before) = 2
    /\ op[1].before[1].stem = _url_to_path(op[1].url)
    /\ op[1].before[2].stem # _url_to_path(op[1].url)
    /\ TotalSize(op[1].before) + op[1].size > max_size
    /\ files = <<op[1].before[2]>>

(* An accommodate pass that follows a get of a URL which was a hit *)
AccommodateAfterHit ==
    IsOp("accomodate") /\ op[1].url # <<>> /\ hit # <<>>

(* C24: a Lookup hit makes the returned entry the most recently used one:  *)
(* the next Accommodate pass orders it before every entry that was not      *)
(* looked up or written since, so of the entries competing for the budget   *)
(* it is evicted last (whenever any entry survives the pass, it does).      *)
C24_HitEvictedLast ==
    AccommodateAfterHit =>
        /\ NameOf(op[1].before[1]) = hit[1].name
        /\ \A i \in 2..Len(op[1].before) :
              Exists(files, NameOf(op[1].before[i])) => Exists(files, hit[1].name)
        /\ files # <<>> => NameOf(files[1]) = hit[1].name

C24_Witness ==
    /\ AccommodateAfterHit
    /\ op[1].first = 2
    /\ Len(op[1].before) = 2
    /\ Len(files) = 1
    /\ NameOf(files[1]) = hit[1].name

(* The only file of the looked-up key is a final entry whose suffix is not hex *)
MalformedMatch ==
    /\ pc = "loop"
    /\ \E i \in 1..Len(files) :
          /\ Matches(files, _url_to_path(url)) = {i}
          /\ ~files[i].tmp
          /\ ~files[i].suffix.wellformed

(* C25: when the matched final entry's suffix is not valid hex, Lookup      *)
(* still reports a hit with that entry's path and empty validator bytes, so *)
(* that no conditional header is sent; it neither raises nor reports a miss *)
C25_MalformedSuffixIsHitWithoutValidator ==
    [][(Lookup /\ MalformedMatch) =>
          /\ hit' # <<>>
          /\ \E i \in Matches(files, _url_to_path(url)) :
                hit'[1].name = NameOf(files[i])
          /\ hit'[1].key = EmptyStr
          /\ hdr' = <<>>
          /\ pc' = "request"
          /\ last_err' = last_err]_vars

C25_Witness ==
    /\ pc = "request"
    /\ hit # <<>>
    /\ ~hit[1].name.suffix.wellformed
    /\ hit[1].key = EmptyStr
    /\ hdr = <<>>

(* The call slept after its attempt k *)
SleptAfter(k) ==
    \E i \in 1..Len(hist.cur.naps) : hist.cur.naps[i].k = k

(* C26: every failed attempt that is not the last one is followed by a      *)
(* backoff sleep before the next request is issued, whatever the kind of    *)
(* failure; no two requests of one Download call are issued without a sleep *)
(* between them.                                                            *)
C26_SleepBetweenRequests ==
    pc = "request" => \A k \in 1..(attempt - 1) : SleptAfter(k)

(* C27: the backoff delay after failed attempt k (counted from 1) is        *)
(* min(2^(k-1), 30) seconds, i.e. 1, 2, 4, 8, 16, 30, 30, ...; no sleep      *)
(* happens after the final attempt or after a successful attempt.           *)
C27_DelayDoublesUpToThirty ==
    LET naps == hist.cur.naps
        table == <<1, 2, 4, 8, 16>>
    IN /\ \A i \in 1..Len(naps) :
             /\ naps[i].k \in 1..(retries - 1)
             /\ naps[i].d = IF naps[i].k <= 5 THEN table[naps[i].k] ELSE 30
             /\ i > 1 => naps[i - 1].k < naps[i].k
       /\ pc \in {"done", "failed"} => ~SleptAfter(attempt)
       /\ pc = "failed" => attempt = retries

C27_Witness ==
    /\ pc = "failed"
    /\ retries = 7
    /\ Len(hist.cur.naps) = 6
    /\ hist.cur.naps[5] = [k |-> 5, d |-> 16]
    /\ hist.cur.naps[6] = [k |-> 6, d |-> 30]

(* A temporary file of the key of the URL being downloaded exists *)
TmpLeft ==
    \E i \in 1..Len(files) : files[i].tmp /\ files[i].stem = _url_to_path(url)

(* C28: after any failed attempt that had started writing a body, the temp  *)
(* file of that attempt no longer exists when the next attempt starts or    *)
(* when the terminal failure is raised; a failure of the cleanup never       *)
(* changes the outcome (the attempt's recorded error stays what it was).     *)
C28_NoTmpAfterFailedAttempt ==
    /\ []((/\ pc \in {"loop", "backoff", "failed"}
           /\ attempt >= 1
           /\ hist.cur.stuckAt # attempt) => ~TmpLeft)
    /\ [][(Finally \/ FinallyStuck) =>
             /\ last_err' = last_err
             /\ ret' = ret
             /\ after' = after
             /\ pc' \in {"done", "loop", "backoff"}
             /\ pc' = "done" <=> after = "return"]_vars

C28_Witness ==
    /\ pc = "backoff"
    /\ attempt < retries
    /\ last_err = Err("Incomplete", 0)
    /\ hist.cur.errAt = attempt
    /\ hist.cur.stuckAt # attempt
    /\ ~TmpLeft

(* C29: the integrity hint of a 200 response is the decoded content-checksum *)
(* header when that header is present and decodable (to a digest that is not *)
(* empty); otherwise it is the entity tag, quotes and weak prefix stripped,  *)
(* if and only if that tag consists of exactly 32 hex characters; otherwise  *)
(* there is no hint and no checksum comparison is made.                      *)
C29_HintPrefersChecksumHeader ==
    IsOp("hint") =>
        LET o == op[1]
            decoded == IF o.cmd5 # <<>> /\ o.cmd5[1].kind = "b64"
                          /\ o.cmd5[1].v[1] # EmptyStr
                       THEN <<o.cmd5[1].v[1]>> ELSE <<>>
            tag == IF o.form = "weakweak" THEN Weak(o.core) ELSE o.core
            shaped == tag \in {WrongMd5, Md5Hex(Body(1, 1))}
        IN /\ decoded # <<>> => o.hint = decoded
           /\ (decoded = <<>> /\ shaped) => o.hint = <<tag>>
           /\ (decoded = <<>> /\ ~shaped) => o.hint = <<>>
           /\ o.hint = <<>> => o.err = <<>>
           /\ o.hint # <<>> =>
                 (o.err = <<>> <=> o.hint[1] = Md5Hex(Body(1, 1)))
           /\ o.err \in {<<>>, <<Err("Checksum", 0)>>}

C29_Witness ==
    /\ IsOp("hint")
    /\ op[1].form = "weak"
    /\ op[1].core = Md5Hex(Body(1, 1))
    /\ op[1].cmd5 = <<Base64(WrongMd5)>>
    /\ op[1].hint = <<WrongMd5>>
    /\ op[1].err = <<Err("Checksum", 0)>>

(* The body read in this attempt has not the declared size *)
SizeWrong == resp[1].clen # Absent /\ n # resp[1].clen

(* The body read in this attempt has not the checksum the headers give *)
Md5Wrong ==
    LET h == _extract_md5_from_headers(resp[1])
    IN h # <<>> /\ h[1] # Md5Hex(FileAt(files, AddTmp(path[1])).data)

(* C30: the size check is made before the checksum check and the two        *)
(* failures are distinct errors: a byte count different from the declared    *)
(* size fails the attempt as an incomplete transfer even when the checksum   *)
(* would also mismatch, a checksum mismatch is reported only when the size   *)
(* check passed or no size was declared, and in neither case is the temp     *)
(* file renamed to the final name.                                           *)
C30_SizeBeforeChecksum ==
    [][Validate =>
          /\ SizeWrong => /\ last_err' = Err("Incomplete", 0)
                          /\ pc' = "finally" /\ after' = "backoff"
          /\ (~SizeWrong /\ Md5Wrong) => /\ last_err' = Err("Checksum", 0)
                                         /\ pc' = "finally" /\ after' = "backoff"
          /\ (~SizeWrong /\ ~Md5Wrong) => pc' = "publish" /\ last_err' = last_err
          /\ Err("Incomplete", 0) # Err("Checksum", 0)
          /\ (SizeWrong \/ Md5Wrong) =>
                /\ files' = files
                /\ ~Exists(files', path[1])
                /\ Exists(files', AddTmp(path[1]))]_vars

C30_Witness ==
    /\ pc = "finally"
    /\ after = "backoff"
    /\ path # <<>>
    /\ SizeWrong
    /\ Md5Wrong
    /\ last_err = Err("Incomplete", 0)

(* The two concurrent calls download different URLs *)
DistinctUrls ==
    /\ tasks[1].url # <<>>
    /\ tasks[2].url # <<>>
    /\ tasks[1].url # tasks[2].url

(* The files of the key of u in the directory fs, with their contents *)
KeyFiles(fs, u) == {fs[i] : i \in {j \in 1..Len(fs) : fs[j].stem = _url_to_path(u)}}

(* C31: two Download calls that run concurrently on distinct URLs with the  *)
(* same cache root do not conflict on cache paths: no step of one call      *)
(* deletes, overwrites or renames the temp file or the final file of the    *)
(* other, and each call succeeds whenever it would succeed when run alone    *)
(* (with this server a call that runs alone always succeeds).               *)
C31_DistinctUrlsDoNotConflict ==
    /\ [][\A t \in Tasks :
            (DistinctUrls /\ TStep(t)) =>
                KeyFiles(files', tasks[3 - t].url) = KeyFiles(files, tasks[3 - t].url)]_vars
    /\ [](DistinctUrls => \A t \in Tasks : tasks[t].pc # "failed")

(* The two concurrent calls download the same URL *)
SameUrl == tasks[1].url # <<>> /\ tasks[1].url = tasks[2].url

(* The file of that name exists and holds the whole body of the URL u *)
Complete(fs, name, u) ==
    Exists(fs, name) /\ FileAt(fs, name).data = server[u].body

(* C32: with two uncoordinated concurrent Download calls for the same URL,  *)
(* sharing the same temp file name, every file that becomes visible under   *)
(* the final cache name and every path either call returns still holds a    *)
(* complete body of the declared size: the race can make a call fail but    *)
(* can never publish a truncated or mixed file.                             *)
C32_RaceNeverPublishesTruncated ==
    /\ [](SameUrl =>
            \A i \in 1..Len(files) :
               (~files[i].tmp /\ files[i].stem = _url_to_path(tasks[1].url))
                  => files[i].data = server[tasks[1].url].body)
    /\ [][\A t \in Tasks :
            (SameUrl /\ tasks[t].pc # "done" /\ tasks'[t].pc = "done") =>
                Complete(files', tasks'[t].ret[1], tasks[t].url)]_vars

(* The indices in fs of the files of the key of u itself *)
OwnFiles(fs, u) == {i \in 1..Len(fs) : fs[i].stem = _url_to_path(u)}

(* C33: key isolation.  For two URLs whose paths differ, including the case *)
(* where one key is a "-"-boundary prefix of the other (/a and /a/b),       *)
(* Lookup(U1) never returns an entry that was admitted for U2, and          *)
(* Lookup(U1), Admit(U1) and the cleanup of Download(U1) never delete U2's   *)
(* entry; only Accommodate may remove another key's entry.                   *)
C33_KeyIsolation ==
    /\ [][Lookup => /\ hit' # <<>> => hit'[1].name.stem = _url_to_path(url)
                    /\ KeyFiles(files', URL_AB) = KeyFiles(files, URL_AB)]_vars
    /\ [][Finally => KeyFiles(files', URL_AB) = KeyFiles(files, URL_AB)]_vars
    /\ [][Admit =>
            LET size == IF resp[1].clen = Absent THEN 0 ELSE resp[1].clen
            IN files' = _accomodate(Remove(files, OwnFiles(files, url)), size)]_vars

(* C34: after every successful Download the total size of the files in the  *)
(* cache root is at most max_size whenever the downloaded file alone is at   *)
(* most max_size, whether or not the server declared a Content-Length.       *)
C34_SuccessKeepsBudget ==
    (pc = "done" /\ Exists(files, ret[1])
        /\ Size(FileAt(files, ret[1])) <= max_size)
        => TotalSize(files) <= max_size

FileSet(fs) == {fs[i] : i \in 1..Len(fs)}

(* The files of fs without the file of that name, in their order *)
Others(fs, name) == Remove(fs, {i \in 1..Len(fs) : NameOf(fs[i]) = name})

(* C36: when an attempt ends with a 304 response and a non-empty cached    *)
(* file, Download returns the looked-up path and leaves the set of files in *)
(* the cache root and their contents unchanged: nothing is admitted,        *)
(* evicted, written or renamed, and only the returned entry's access time   *)
(* is updated.                                                              *)
C36_NotModifiedLeavesCacheAlone ==
    /\ [][(Lookup /\ hit' # <<>>) =>
             /\ FileSet(files') = FileSet(files)
             /\ Others(files', hit'[1].name) = Others(files, hit'[1].name)]_vars
    /\ [][(pc = "request" /\ resp' # <<>> /\ resp'[1].code = 304 /\ hit # <<>>
              /\ Usable(files, hit[1].name)) =>
             /\ files' = files
             /\ ret' = <<hit[1].name>>
             /\ after' = "return"
             /\ last_err' = last_err]_vars
    /\ [][(Finally /\ after = "return" /\ resp[1].code = 304) =>
             /\ FileSet(files') = FileSet(files)
             /\ Others(files', ret[1]) = Others(files, ret[1])
             /\ pc' = "done"
             /\ ret' = <<hit[1].name>>]_vars

(* C37: an entry that was published from a response without an entity tag  *)
(* (admitted with the empty validator, stored with the placeholder suffix)  *)
(* never causes a conditional header to be sent: every later Download of    *)
(* that URL issues an unconditional request.                                *)
C37_PlaceholderSendsNoHeader ==
    (pc = "request" /\ hit # <<>> /\ hit[1].name.suffix = HexEncode(NulStr))
        => hdr = <<>>

====
